---- MODULE Spec2Model ----
(***************************************************************************)
(* Model of the money-muling detection engine                              *)
(* (src/invidious-main/src/lib/detectionEngine.ts).                        *)
(*                                                                         *)
(* Representation.                                                         *)
(*  - An account id is a JavaScript string, modelled as the sequence of    *)
(*    its UTF-16 code units (<<65>> is "A", <<66,44,67>> is "B,C").        *)
(*  - A timestamp is Date.getTime() in whole seconds: parseCSV accepts     *)
(*    only YYYY-MM-DD HH:MM:SS, so every getTime() is a multiple of 1000   *)
(*    ms and every window comparison is decided by the seconds.            *)
(*  - A JavaScript Map is a sequence of [k, v] records in insertion order, *)
(*    a JavaScript Set a sequence without repetition in insertion order.   *)
(*  - A transaction is [transaction_id, sender_id, receiver_id,            *)
(*    timestamp]; the engine never reads the amount.                       *)
(***************************************************************************)
EXTENDS Integers, Sequences, FiniteSets, TLC

VARIABLES
    transactions,       \* the argument of runDetection
    pc,                 \* position inside runDetection
    idx,                \* index of the running for-of loop (1-based)
    nodes,              \* Map<string, GraphNode> of buildGraph
    allAccounts,        \* [...nodes.keys()]
    cycles,             \* result of detectCycles
    smurfs,             \* result of detectSmurfing
    shellChains,        \* result of detectShellNetworks
    scores,             \* Map<string, number>
    patterns,           \* Map<string, Set<string>>
    ringMembership,     \* Map<string, string>
    fraudRings,         \* FraudRing[]
    ringCounter,        \* let ringCounter
    suspiciousAccounts, \* SuspiciousAccount[]
    result              \* the returned DetectionResult, or NoResult

vars == <<transactions, pc, idx, nodes, allAccounts, cycles, smurfs, shellChains,
          scores, patterns, ringMembership, fraudRings, ringCounter,
          suspiciousAccounts, result>>

-----------------------------------------------------------------------------
(* Sequences, strings, JavaScript Map and Set                              *)

Range(s) == { s[i] : i \in 1..Len(s) }

\* TRUE. An operator's argument is evaluated where it is first used; a loop tests
\* this on its accumulator so that one iteration is evaluated before the next
Evaluated(v) == v = v

Includes(s, x) == \E i \in 1..Len(s) : s[i] = x

\* Array.prototype.indexOf, 1-based; 0 when absent
IndexOf(s, x) ==
    IF Includes(s, x) THEN CHOOSE i \in 1..Len(s) : s[i] = x /\ \A j \in 1..(i-1) : s[j] # x
    ELSE 0

\* s.slice(from0, to0) with 0-based, end-exclusive, non-negative bounds
Slice(s, from0, to0) ==
    LET hi == IF to0 > Len(s) THEN Len(s) ELSE to0
    IN  IF from0 >= hi THEN << >> ELSE SubSeq(s, from0 + 1, hi)

\* a < b on JavaScript strings: lexicographic by code unit, a proper prefix is smaller
StrLess(a, b) ==
    \E i \in 1..(Len(b)) :
        /\ \A j \in 1..(i-1) : j <= Len(a) /\ a[j] = b[j]
        /\ \/ i = Len(a) + 1
           \/ i <= Len(a) /\ a[i] < b[i]

\* strs.join(sep): the strings concatenated with the separator between them
RECURSIVE Join(_, _)
Join(strs, sep) ==
    IF Len(strs) = 0 THEN << >>
    ELSE IF Len(strs) = 1 THEN strs[1]
    ELSE strs[1] \o sep \o Join(Tail(strs), sep)

MapHas(m, k) == \E i \in 1..Len(m) : m[i].k = k

MapIdx(m, k) == CHOOSE i \in 1..Len(m) : m[i].k = k

\* m.get(k) || dflt  (dflt stands for undefined where the code tests it)
MapGet(m, k, dflt) == IF MapHas(m, k) THEN m[MapIdx(m, k)].v ELSE dflt

\* m.set(k, v): an existing key keeps its place, a new key goes last
MapSet(m, k, v) ==
    IF MapHas(m, k) THEN [m EXCEPT ![MapIdx(m, k)].v = v]
    ELSE Append(m, [k |-> k, v |-> v])

MapKeys(m) == [i \in 1..Len(m) |-> m[i].k]

\* set.add(x) on an insertion-ordered Set
SetAdd(s, x) == IF Includes(s, x) THEN s ELSE Append(s, x)

\* [...new Set(arr)]
RECURSIVE Dedup(_)
Dedup(arr) ==
    IF Len(arr) = 0 THEN << >>
    ELSE SetAdd(Dedup(SubSeq(arr, 1, Len(arr) - 1)), arr[Len(arr)])

-----------------------------------------------------------------------------
(* buildGraph                                                              *)

NewNode(id) ==
    [id |-> id, outEdges |-> << >>, inEdges |-> << >>, transactions |-> << >>,
     totalTxCount |-> 0]

\* getOrCreate(id): the node map after the call
getOrCreate(ns, id) == IF MapHas(ns, id) THEN ns ELSE MapSet(ns, id, NewNode(id))

\* the loop body with the out-edge recorded as present (1), not counted
buildGraphStepPresence(ns, tx) ==
    LET n1 == getOrCreate(getOrCreate(ns, tx.sender_id), tx.receiver_id)
        si == MapIdx(n1, tx.sender_id)
        n2 == [n1 EXCEPT ![si].v.outEdges = MapSet(@, tx.receiver_id, 1)]
        ri == MapIdx(n2, tx.receiver_id)
        n3 == [n2 EXCEPT ![ri].v.inEdges =
                  MapSet(@, tx.sender_id, MapGet(@, tx.sender_id, 0) + 1)]
        n4 == [n3 EXCEPT ![si].v.transactions = Append(@, tx),
                         ![si].v.totalTxCount = @ + 1]
    IN  [n4 EXCEPT ![ri].v.totalTxCount = @ + 1]

\* one iteration of the for-of loop over the transactions
buildGraphStep(ns, tx) ==
    LET n1 == getOrCreate(getOrCreate(ns, tx.sender_id), tx.receiver_id)
        si == MapIdx(n1, tx.sender_id)
        n2 == [n1 EXCEPT ![si].v.outEdges =
                  MapSet(@, tx.receiver_id, MapGet(@, tx.receiver_id, 0) + 1)]
        ri == MapIdx(n2, tx.receiver_id)
        n3 == [n2 EXCEPT ![ri].v.inEdges =
                  MapSet(@, tx.sender_id, MapGet(@, tx.sender_id, 0) + 1)]
        n4 == [n3 EXCEPT ![si].v.transactions = Append(@, tx),
                         ![si].v.totalTxCount = @ + 1]
    IN  [n4 EXCEPT ![ri].v.totalTxCount = @ + 1]

\* the for-of loop from the i-th transaction on
RECURSIVE buildGraphFrom(_, _, _)
buildGraphFrom(ns, txs, i) ==
    IF i > Len(txs) \/ ~Evaluated(ns) THEN ns
    ELSE buildGraphFrom(buildGraphStep(ns, txs[i]), txs, i + 1)

buildGraph(txs) == buildGraphFrom(<< >>, txs, 1)

NoNode == [id |-> << >>, outEdges |-> << >>, inEdges |-> << >>, transactions |-> << >>,
           totalTxCount |-> 0]

\* nodes.get(id), NoNode standing for undefined
NodeOf(ns, id) == MapGet(ns, id, NoNode)

-----------------------------------------------------------------------------
(* detectCycles                                                            *)

\* cycle.reduce((a, b) => (a < b ? a : b))
RECURSIVE ReduceMin(_, _, _)
ReduceMin(arr, i, a) ==
    IF i > Len(arr) THEN a
    ELSE ReduceMin(arr, i + 1, IF StrLess(a, arr[i]) THEN a ELSE arr[i])

\* rotate to the smallest node first and join with ","
cycleKey(cycle) ==
    LET minIdx == IndexOf(cycle, ReduceMin(cycle, 2, cycle[1])) - 1
        normalized == Slice(cycle, minIdx, Len(cycle)) \o Slice(cycle, 0, minIdx)
    IN  Join(normalized, <<44>>)

\* the found-a-cycle branch: acc is [cycles, allCycleStrings]
recordCycle(acc, path) ==
    LET key == cycleKey(path)
    IN  IF key \in acc.allCycleStrings THEN acc
        ELSE [cycles |-> Append(acc.cycles, path),
              allCycleStrings |-> acc.allCycleStrings \cup {key}]

\* line 210 with path.length >= 2 for path.length >= 3
closesCycleFromTwo(neighbor, start, path) ==
    neighbor = start /\ Len(path) >= 2 /\ Len(path) <= 5

\* line 210: the neighbour closes a cycle of 3 to 5 accounts
closesCycle(neighbor, start, path) == neighbor = start /\ Len(path) >= 3 /\ Len(path) <= 5

\* line 224 with path.length < 6 for path.length < 5
extendsPathToSix(neighbor, visited, path) == neighbor \notin visited /\ Len(path) < 6

\* line 224: the search goes on through an unvisited neighbour, up to 5 accounts
extendsPath(neighbor, visited, path) == neighbor \notin visited /\ Len(path) < 5

\* dfs(start, current, path, visited), from the i-th neighbour of current on;
\* visited is restored by the caller's pop/delete, so it is passed by value
RECURSIVE cycleDfs(_, _, _, _, _, _, _)
cycleDfs(ns, start, current, path, visited, i, acc) ==
    IF ~MapHas(ns, current) \/ ~Evaluated(acc) THEN acc
    ELSE
    LET keys == MapKeys(NodeOf(ns, current).outEdges)
    IN  IF i > Len(keys) THEN acc
        ELSE
        LET neighbor == keys[i]
        IN  IF closesCycle(neighbor, start, path)
            THEN cycleDfs(ns, start, current, path, visited, i + 1,
                          recordCycle(acc, path))
            ELSE IF extendsPath(neighbor, visited, path)
            THEN cycleDfs(ns, start, current, path, visited, i + 1,
                          cycleDfs(ns, start, neighbor, Append(path, neighbor),
                                   visited \cup {neighbor}, 1, acc))
            ELSE cycleDfs(ns, start, current, path, visited, i + 1, acc)

RECURSIVE detectCyclesFrom(_, _, _)
detectCyclesFrom(ns, k, acc) ==
    IF k > Len(ns) \/ ~Evaluated(acc) THEN acc
    ELSE detectCyclesFrom(ns, k + 1,
             cycleDfs(ns, ns[k].k, ns[k].k, <<ns[k].k>>, {ns[k].k}, 1, acc))

detectCycles(ns) ==
    detectCyclesFrom(ns, 1, [cycles |-> << >>, allCycleStrings |-> {}]).cycles

-----------------------------------------------------------------------------
(* detectSmurfing                                                          *)

SMURF_THRESHOLD == 10

\* SMURF_WINDOW_MS (72 * 60 * 60 * 1000 ms) in seconds
SMURF_WINDOW_S == 72 * 60 * 60

\* the grouping loop: Map key -> Transaction[] by receiver_id or by sender_id
RECURSIVE groupBy(_, _, _, _)
groupBy(txs, i, byRecv, m) ==
    IF i > Len(txs) \/ ~Evaluated(m) THEN m
    ELSE LET k == IF byRecv THEN txs[i].receiver_id ELSE txs[i].sender_id
         IN  groupBy(txs, i + 1, byRecv, MapSet(m, k, Append(MapGet(m, k, << >>), txs[i])))

\* insertion of t behind every element whose timestamp is not later
InsertByTime(sorted, t) ==
    LET n == Cardinality({ i \in 1..Len(sorted) : sorted[i].timestamp <= t.timestamp })
    IN  SubSeq(sorted, 1, n) \o <<t>> \o SubSeq(sorted, n + 1, Len(sorted))

\* [...txs].sort((a, b) => a.timestamp - b.timestamp): Array.prototype.sort is stable
RECURSIVE sortByTime(_)
sortByTime(txs) ==
    IF Len(txs) = 0 THEN << >>
    ELSE InsertByTime(sortByTime(SubSeq(txs, 1, Len(txs) - 1)), txs[Len(txs)])

\* the while loop with >= for >: a span of exactly the window evicts the left end
RECURSIVE advanceLeftAtWindow(_, _, _, _)
advanceLeftAtWindow(sorted, left, right, windowLen) ==
    IF sorted[right].timestamp - sorted[left].timestamp >= windowLen
    THEN advanceLeftAtWindow(sorted, left + 1, right, windowLen)
    ELSE left

\* the while loop that advances the left pointer (1-based indices)
RECURSIVE advanceLeft(_, _, _, _)
advanceLeft(sorted, left, right, windowLen) ==
    IF sorted[right].timestamp - sorted[left].timestamp > windowLen
    THEN advanceLeft(sorted, left + 1, right, windowLen)
    ELSE left

\* new Set(window.map(counterparty)) in insertion order
uniqueParties(sorted, left, right, byRecv) ==
    Dedup([i \in 1..(right - left + 1) |->
             IF byRecv THEN sorted[left + i - 1].sender_id
             ELSE sorted[left + i - 1].receiver_id])

\* the sliding window that reports the last window reaching the threshold, not
\* the first
RECURSIVE slideWindowLast(_, _, _, _, _)
slideWindowLast(account, sorted, left, right, byRecv) ==
    IF right > Len(sorted) THEN << >>
    ELSE LET l2 == advanceLeft(sorted, left, right, SMURF_WINDOW_S)
             uniq == uniqueParties(sorted, l2, right, byRecv)
             later == slideWindowLast(account, sorted, l2, right + 1, byRecv)
         IN  IF later # << >> THEN later
             ELSE IF Len(uniq) >= SMURF_THRESHOLD
             THEN << [type |-> IF byRecv THEN "fan_in" ELSE "fan_out",
                      account |-> account, counterparties |-> uniq] >>
             ELSE << >>

\* the sliding window without the break: a flag at every window reaching the
\* threshold
RECURSIVE slideWindowAll(_, _, _, _, _)
slideWindowAll(account, sorted, left, right, byRecv) ==
    IF right > Len(sorted) THEN << >>
    ELSE LET l2 == advanceLeft(sorted, left, right, SMURF_WINDOW_S)
             uniq == uniqueParties(sorted, l2, right, byRecv)
         IN  IF Len(uniq) >= SMURF_THRESHOLD
             THEN << [type |-> IF byRecv THEN "fan_in" ELSE "fan_out",
                      account |-> account, counterparties |-> uniq] >>
                  \o slideWindowAll(account, sorted, l2, right + 1, byRecv)
             ELSE slideWindowAll(account, sorted, l2, right + 1, byRecv)

\* the sliding window over one group; << >> when the account is not flagged,
\* <<flag>> at the first window reaching the threshold (break)
RECURSIVE slideWindow(_, _, _, _, _)
slideWindow(account, sorted, left, right, byRecv) ==
    IF right > Len(sorted) THEN << >>
    ELSE LET l2 == advanceLeft(sorted, left, right, SMURF_WINDOW_S)
             uniq == uniqueParties(sorted, l2, right, byRecv)
         IN  IF Len(uniq) >= SMURF_THRESHOLD
             THEN << [type |-> IF byRecv THEN "fan_in" ELSE "fan_out",
                      account |-> account, counterparties |-> uniq] >>
             ELSE slideWindow(account, sorted, l2, right + 1, byRecv)

RECURSIVE smurfScan(_, _, _, _)
smurfScan(groups, g, byRecv, results) ==
    IF g > Len(groups) \/ ~Evaluated(results) THEN results
    ELSE smurfScan(groups, g + 1, byRecv,
             results \o slideWindow(groups[g].k, sortByTime(groups[g].v), 1, 1, byRecv))

detectSmurfing(txs) ==
    LET byReceiver == groupBy(txs, 1, TRUE, << >>)
        bySender   == groupBy(txs, 1, FALSE, << >>)
    IN  smurfScan(bySender, 1, FALSE, smurfScan(byReceiver, 1, TRUE, << >>))

-----------------------------------------------------------------------------
(* detectShellNetworks                                                     *)

\* an intermediary may have at most this many transactions (lines 330 and 339)
LOW_ACTIVITY_MAX == 3

\* newPath.length <= 7 for newPath.length < 7
ShellMaxPathInclusive == 7 + 1

\* the bound of newPath.length < 7
SHELL_MAX_PATH == 7

\* the bound of newPath.length >= 3
SHELL_MIN_PATH == 3

\* intermediates.every(id => (nodes.get(id)?.totalTxCount || 0) <= 3)
allLowActivity(ns, newPath) ==
    \A j \in 2..(Len(newPath) - 1) : NodeOf(ns, newPath[j]).totalTxCount <= LOW_ACTIVITY_MAX

\* the recording branch: acc is [chains, reportedChains]
recordChain(ns, acc, newPath) ==
    IF Len(newPath) >= SHELL_MIN_PATH /\ allLowActivity(ns, newPath)
    THEN LET key == Join(newPath, <<8594>>)
         IN  IF key \in acc.reportedChains THEN acc
             ELSE [chains |-> Append(acc.chains, newPath),
                   reportedChains |-> acc.reportedChains \cup {key}]
    ELSE acc

\* line 333: path.length > 0 && !isLowActivity skips the neighbour
shellSkip(ns, current, path) ==
    Len(path) > 0 /\ ~(NodeOf(ns, current).totalTxCount <= LOW_ACTIVITY_MAX)

\* dfs(current, path), from the i-th neighbour of current on
RECURSIVE shellDfs(_, _, _, _, _)
shellDfs(ns, current, path, i, acc) ==
    IF ~MapHas(ns, current) \/ ~Evaluated(acc) THEN acc
    ELSE
    LET keys == MapKeys(NodeOf(ns, current).outEdges)
    IN  IF i > Len(keys) THEN acc
        ELSE
        LET neighbor == keys[i]
            newPath == Append(path, neighbor)
        IN  IF Includes(path, neighbor) \/ shellSkip(ns, current, path)
            THEN shellDfs(ns, current, path, i + 1, acc)
            ELSE LET a1 == recordChain(ns, acc, newPath)
                     a2 == IF Len(newPath) < SHELL_MAX_PATH
                           THEN shellDfs(ns, neighbor, newPath, 1, a1)
                           ELSE a1
                 IN  shellDfs(ns, current, path, i + 1, a2)

RECURSIVE detectShellFrom(_, _, _)
detectShellFrom(ns, k, acc) ==
    IF k > Len(ns) \/ ~Evaluated(acc) THEN acc
    ELSE detectShellFrom(ns, k + 1, shellDfs(ns, ns[k].k, <<ns[k].k>>, 1, acc))

detectShellNetworks(ns) ==
    detectShellFrom(ns, 1, [chains |-> << >>, reportedChains |-> {}]).chains

-----------------------------------------------------------------------------
(* isMerchantLike and hasHighVelocity                                      *)

\* transactions.filter(t => t.sender_id === account || t.receiver_id === account)
RECURSIVE accountTxs(_, _)
accountTxs(txs, account) ==
    IF Len(txs) = 0 THEN << >>
    ELSE LET rest == accountTxs(SubSeq(txs, 1, Len(txs) - 1), account)
             t == txs[Len(txs)]
         IN  IF t.sender_id = account \/ t.receiver_id = account
             THEN Append(rest, t) ELSE rest

MERCHANT_MIN_TX == 20

MERCHANT_MIN_DAYS == 30

\* isMerchantLike with spanDays > 30 for spanDays >= 30
isMerchantLikeOverSpan(account, ns, txs) ==
    IF ~MapHas(ns, account) THEN FALSE
    ELSE LET own == accountTxs(txs, account)
         IN  IF Len(own) < MERCHANT_MIN_TX THEN FALSE
             ELSE LET times == { own[i].timestamp : i \in 1..Len(own) }
                      minTime == CHOOSE t \in times : \A u \in times : t <= u
                      maxTime == CHOOSE t \in times : \A u \in times : t >= u
                  IN  maxTime - minTime > MERCHANT_MIN_DAYS * 24 * 60 * 60

isMerchantLike(account, ns, txs) ==
    IF ~MapHas(ns, account) THEN FALSE
    ELSE LET own == accountTxs(txs, account)
         IN  IF Len(own) < MERCHANT_MIN_TX THEN FALSE
             ELSE LET times == { own[i].timestamp : i \in 1..Len(own) }
                      minTime == CHOOSE t \in times : \A u \in times : t <= u
                      maxTime == CHOOSE t \in times : \A u \in times : t >= u
                  IN  \* spanDays >= 30 with spanDays = span / 86400 s
                      maxTime - minTime >= MERCHANT_MIN_DAYS * 24 * 60 * 60

VELOCITY_MIN_TX == 5

RECURSIVE velocityScan(_, _, _)
velocityScan(sorted, left, right) ==
    IF right > Len(sorted) THEN FALSE
    ELSE LET l2 == advanceLeft(sorted, left, right, 24 * 60 * 60)
         IN  IF right - l2 + 1 >= VELOCITY_MIN_TX THEN TRUE
             ELSE velocityScan(sorted, l2, right + 1)

hasHighVelocity(account, txs) == velocityScan(sortByTime(accountTxs(txs, account)), 1, 1)

-----------------------------------------------------------------------------
(* runDetection: the accumulators                                          *)

Min(a, b) == IF a < b THEN a ELSE b

SCORE_CAP == 100

\* addScore without the Math.min(100, ...) of line 422
addScoreUncapped(sc, account, points) ==
    MapSet(sc, account, MapGet(sc, account, 0) + points)

\* addScore(account, points)
addScore(sc, account, points) ==
    MapSet(sc, account, Min(SCORE_CAP, MapGet(sc, account, 0) + points))

\* addPattern(account, pattern)
addPattern(pt, account, pattern) ==
    MapSet(pt, account, SetAdd(MapGet(pt, account, << >>), pattern))

\* String(n).padStart(3, "0")
padStart3(str) ==
    IF Len(str) >= 3 THEN str ELSE IF Len(str) = 2 THEN "0" \o str ELSE "00" \o str

\* the ring id with ++ringCounter for ringCounter++
ringIdOfNext(counter) == "RING_" \o padStart3(ToString(counter + 1))

\* `RING_${String(ringCounter).padStart(3, "0")}`
ringIdOf(counter) == "RING_" \o padStart3(ToString(counter))

\* the value of ringMembership.get(account) when the account has no ring
NoRing == "undefined"

\* risk scores are kept in tenths of a point (risk_score * 10), an integer
Tenths(points) == 10 * points

\* the accumulator state threaded through the loops
Acc(sc, pt, rm) == [scores |-> sc, patterns |-> pt, ringMembership |-> rm]

-----------------------------------------------------------------------------
(* runDetection, 1: cycles (lines 435-453)                                 *)

\* ringMembership.set(account, ringId) of the cycle loop (line 442)
cycleAssign(rm, account, ringId) == MapSet(rm, account, ringId)

\* the inner loop over the accounts of one cycle
RECURSIVE cycleMembers(_, _, _, _)
cycleMembers(acc, cycle, i, ringId) ==
    IF i > Len(cycle) \/ ~Evaluated(acc) THEN acc
    ELSE cycleMembers(
            Acc(addScore(acc.scores, cycle[i], 45),
                addPattern(acc.patterns, cycle[i], "cycle_length_" \o ToString(Len(cycle))),
                cycleAssign(acc.ringMembership, cycle[i], ringId)),
            cycle, i + 1, ringId)

cycleRing(cycle, ringId) ==
    [ring_id |-> ringId, member_accounts |-> Dedup(cycle), pattern_type |-> "cycle",
     risk10 |-> Min(Tenths(100), Tenths(45 + (IF Len(cycle) >= 4 THEN 15 ELSE 0)))]

-----------------------------------------------------------------------------
(* runDetection, 2: smurfing (lines 457-475)                               *)

SMURF_MEMBER_CAP == 20

smurfPattern(type) == IF type = "fan_in" THEN "fan_in_smurfing" ELSE "fan_out_smurfing"

smurfRing(smurf, ringId) ==
    [ring_id |-> ringId,
     member_accounts |-> <<smurf.account>> \o Slice(smurf.counterparties, 0, SMURF_MEMBER_CAP),
     pattern_type |-> IF smurf.type = "fan_in" THEN "smurfing_fan_in" ELSE "smurfing_fan_out",
     risk10 |-> Min(Tenths(100), Tenths(30) + Len(smurf.counterparties) * 15)]

\* the smurfing loop without the test of existingRingId
smurfNeedsRingAlways(rm, account) == TRUE

\* !existingRingId (line 464)
smurfNeedsRing(rm, account) == MapGet(rm, account, NoRing) = NoRing

-----------------------------------------------------------------------------
(* runDetection, 3: shell chains (lines 479-502)                           *)

RECURSIVE shellIntermediates(_, _, _)
shellIntermediates(acc, chain, i) ==
    IF i > Len(chain) - 1 \/ ~Evaluated(acc) THEN acc
    ELSE shellIntermediates(
            Acc(addScore(acc.scores, chain[i], 35),
                addPattern(acc.patterns, chain[i], "shell_intermediary"),
                acc.ringMembership),
            chain, i + 1)

\* lines 486-489 with the points and the tag for the first account only
shellEndpointsFirstOnly(acc, chain) ==
    Acc(addScore(acc.scores, chain[1], 20),
        addPattern(acc.patterns, chain[1], "shell_chain"),
        acc.ringMembership)

\* lines 486-489
shellEndpoints(acc, chain) ==
    LET first == chain[1]
        last == chain[Len(chain)]
    IN  Acc(addScore(addScore(acc.scores, first, 20), last, 20),
            addPattern(addPattern(acc.patterns, first, "shell_chain"), last, "shell_chain"),
            acc.ringMembership)

\* !ringMembership.has(chain[0]) (line 491)
shellNeedsRing(rm, chain) == ~MapHas(rm, chain[1])

\* for (const m of members) ringMembership.set(m, ringId) (line 494)
RECURSIVE shellAssign(_, _, _, _)
shellAssign(rm, chain, i, ringId) ==
    IF i > Len(chain) \/ ~Evaluated(rm) THEN rm
    ELSE shellAssign(MapSet(rm, chain[i], ringId), chain, i + 1, ringId)

\* the shell ring with the intermediaries alone as its members
shellRingInterior(chain, ringId) ==
    [ring_id |-> ringId, member_accounts |-> Slice(chain, 1, Len(chain) - 1),
     pattern_type |-> "shell_chain",
     risk10 |-> Min(Tenths(100), Tenths(35 + Len(chain) * 5))]

shellRing(chain, ringId) ==
    [ring_id |-> ringId, member_accounts |-> chain, pattern_type |-> "shell_chain",
     risk10 |-> Min(Tenths(100), Tenths(35 + Len(chain) * 5))]

-----------------------------------------------------------------------------
(* runDetection, 4-5: bonus, velocity, filter, sort, ring risk             *)

\* the loop body without addPattern(account, "high_velocity")
bonusStepUntagged(acc, account, txs) ==
    LET patternSet == MapGet(acc.patterns, account, << >>)
        s1 == IF MapHas(acc.patterns, account) /\ Len(patternSet) >= 2
              THEN addScore(acc.scores, account, 15) ELSE acc.scores
    IN  IF hasHighVelocity(account, txs)
        THEN Acc(addScore(s1, account, 10), acc.patterns, acc.ringMembership)
        ELSE Acc(s1, acc.patterns, acc.ringMembership)

\* one iteration of the loop over allAccounts (lines 505-514)
bonusStep(acc, account, txs) ==
    LET patternSet == MapGet(acc.patterns, account, << >>)
        s1 == IF MapHas(acc.patterns, account) /\ Len(patternSet) >= 2
              THEN addScore(acc.scores, account, 15) ELSE acc.scores
    IN  IF hasHighVelocity(account, txs)
        THEN Acc(addScore(s1, account, 10),
                 addPattern(acc.patterns, account, "high_velocity"),
                 acc.ringMembership)
        ELSE Acc(s1, acc.patterns, acc.ringMembership)

\* p.includes("cycle") || p.includes("smurfing") || p.includes("shell"), over the
\* tags the engine writes: cycle_length_N, fan_in_smurfing, fan_out_smurfing,
\* shell_intermediary, shell_chain, high_velocity
isMaliciousTag(p) ==
    p \in {"cycle_length_3", "cycle_length_4", "cycle_length_5",
           "fan_in_smurfing", "fan_out_smurfing", "shell_intermediary", "shell_chain"}

hasMaliciousPattern(patternSet) == \E i \in 1..Len(patternSet) : isMaliciousTag(patternSet[i])

\* the emit loop with the score test alone
filteredOutScoreOnly(account, score, patternSet, ns, txs) == score <= 0

\* the continue conditions of the emit loop (lines 520 and 527)
filteredOut(account, score, patternSet, ns, txs) ==
    \/ score <= 0
    \/ ~hasMaliciousPattern(patternSet) /\ isMerchantLike(account, ns, txs)

\* the record pushed at lines 529-534; Math.round(score * 10) / 10 = score, an integer
emitted(account, score, patternSet, rm) ==
    [account_id |-> account, suspicion_score |-> score, detected_patterns |-> patternSet,
     ring_id |-> MapGet(rm, account, "null")]

\* insertion of a behind the elements with a larger score only: equal scores
\* come out in reverse order
InsertByScoreBeforeEqual(sorted, a) ==
    LET n == Cardinality({ i \in 1..Len(sorted) :
                             sorted[i].suspicion_score > a.suspicion_score })
    IN  SubSeq(sorted, 1, n) \o <<a>> \o SubSeq(sorted, n + 1, Len(sorted))

\* insertion of a behind every element whose score is not smaller
InsertByScore(sorted, a) ==
    LET n == Cardinality({ i \in 1..Len(sorted) :
                             sorted[i].suspicion_score >= a.suspicion_score })
    IN  SubSeq(sorted, 1, n) \o <<a>> \o SubSeq(sorted, n + 1, Len(sorted))

\* suspiciousAccounts.sort((a, b) => b.suspicion_score - a.suspicion_score), stable
RECURSIVE sortByScore(_)
sortByScore(accts) ==
    IF Len(accts) = 0 THEN << >>
    ELSE InsertByScore(sortByScore(SubSeq(accts, 1, Len(accts) - 1)), accts[Len(accts)])

\* suspiciousAccounts.find(a => a.account_id === m)?.suspicion_score || 0
memberScore(accts, m) ==
    IF \E i \in 1..Len(accts) : accts[i].account_id = m
    THEN accts[CHOOSE i \in 1..Len(accts) :
                 accts[i].account_id = m /\ \A j \in 1..(i-1) : accts[j].account_id # m
              ].suspicion_score
    ELSE 0

RECURSIVE SumSeq(_)
SumSeq(s) == IF Len(s) = 0 THEN 0 ELSE s[1] + SumSeq(Tail(s))

MaxSeq(s) == CHOOSE x \in Range(s) : \A y \in Range(s) : x >= y

\* the new risk_score with Math.floor for Math.round
riskOfFloor(memberScores) ==
    LET n == Len(memberScores)
    IN  (6 * MaxSeq(memberScores) * n + 4 * SumSeq(memberScores)) \div n

\* Math.round((max * 0.6 + mean * 0.4) * 10), the new risk_score in tenths:
\* Math.round(q) = floor(q + 1/2) with q = (6 * max * n + 4 * sum) / n
riskOf(memberScores) ==
    LET n == Len(memberScores)
    IN  (2 * (6 * MaxSeq(memberScores) * n + 4 * SumSeq(memberScores)) + n) \div (2 * n)

\* one iteration of the loop over fraudRings (lines 541-549)
updateRing(ring, accts) ==
    LET memberScores == [i \in 1..Len(ring.member_accounts) |->
                           memberScore(accts, ring.member_accounts[i])]
    IN  IF Len(memberScores) > 0 THEN [ring EXCEPT !.risk10 = riskOf(memberScores)]
        ELSE ring

-----------------------------------------------------------------------------
(* The state machine of runDetection                                       *)

NoResult == [returned |-> FALSE]

\* a transaction list from <<sender, receiver, seconds>> triples; the
\* transaction_id is the position in the list
MkTxs(triples) ==
    [i \in 1..Len(triples) |->
        [transaction_id |-> i, sender_id |-> triples[i][1], receiver_id |-> triples[i][2],
         timestamp |-> triples[i][3]]]

Fresh(txs) ==
    /\ transactions = txs
    /\ pc = "start"
    /\ idx = 1
    /\ nodes = << >>
    /\ allAccounts = << >>
    /\ cycles = << >>
    /\ smurfs = << >>
    /\ shellChains = << >>
    /\ scores = << >>
    /\ patterns = << >>
    /\ ringMembership = << >>
    /\ fraudRings = << >>
    /\ ringCounter = 1
    /\ suspiciousAccounts = << >>
    /\ result = NoResult

\* lines 410-434: build the graph, set up the accumulators, detect the cycles
Setup ==
    /\ pc = "start"
    /\ nodes' = buildGraph(transactions)
    /\ allAccounts' = MapKeys(nodes')
    /\ cycles' = detectCycles(nodes')
    /\ pc' = "cycles"
    /\ idx' = 1
    /\ UNCHANGED <<transactions, smurfs, shellChains, scores, patterns, ringMembership,
                   fraudRings, ringCounter, suspiciousAccounts, result>>

\* one iteration of the loop over the cycles (lines 435-453)
CycleStep ==
    /\ pc = "cycles"
    /\ idx <= Len(cycles)
    /\ LET ringId == ringIdOf(ringCounter)
           acc == cycleMembers(Acc(scores, patterns, ringMembership), cycles[idx], 1, ringId)
       IN  /\ scores' = acc.scores
           /\ patterns' = acc.patterns
           /\ ringMembership' = acc.ringMembership
           /\ fraudRings' = Append(fraudRings, cycleRing(cycles[idx], ringId))
    /\ ringCounter' = ringCounter + 1
    /\ idx' = idx + 1
    /\ UNCHANGED <<transactions, pc, nodes, allAccounts, cycles, smurfs, shellChains,
                   suspiciousAccounts, result>>

\* line 456, once the cycle loop is over
DetectSmurfs ==
    /\ pc = "cycles"
    /\ idx > Len(cycles)
    /\ smurfs' = detectSmurfing(transactions)
    /\ pc' = "smurfs"
    /\ idx' = 1
    /\ UNCHANGED <<transactions, nodes, allAccounts, cycles, shellChains, scores, patterns,
                   ringMembership, fraudRings, ringCounter, suspiciousAccounts, result>>

\* one iteration of the loop over the smurfing flags (lines 457-475)
SmurfStep ==
    /\ pc = "smurfs"
    /\ idx <= Len(smurfs)
    /\ LET smurf == smurfs[idx]
           ringId == ringIdOf(ringCounter)
       IN  /\ scores' = addScore(scores, smurf.account, 30)
           /\ patterns' = addPattern(patterns, smurf.account, smurfPattern(smurf.type))
           /\ IF smurfNeedsRing(ringMembership, smurf.account)
              THEN /\ ringCounter' = ringCounter + 1
                   /\ ringMembership' = MapSet(ringMembership, smurf.account, ringId)
                   /\ fraudRings' = Append(fraudRings, smurfRing(smurf, ringId))
              ELSE UNCHANGED <<ringCounter, ringMembership, fraudRings>>
    /\ idx' = idx + 1
    /\ UNCHANGED <<transactions, pc, nodes, allAccounts, cycles, smurfs, shellChains,
                   suspiciousAccounts, result>>

\* line 478, once the smurfing loop is over
DetectShells ==
    /\ pc = "smurfs"
    /\ idx > Len(smurfs)
    /\ shellChains' = detectShellNetworks(nodes)
    /\ pc' = "shells"
    /\ idx' = 1
    /\ UNCHANGED <<transactions, nodes, allAccounts, cycles, smurfs, scores, patterns,
                   ringMembership, fraudRings, ringCounter, suspiciousAccounts, result>>

\* one iteration of the loop over the shell chains (lines 479-502)
ShellStep ==
    /\ pc = "shells"
    /\ idx <= Len(shellChains)
    /\ LET chain == shellChains[idx]
           ringId == ringIdOf(ringCounter)
           acc == shellEndpoints(
                     shellIntermediates(Acc(scores, patterns, ringMembership), chain, 2),
                     chain)
       IN  /\ scores' = acc.scores
           /\ patterns' = acc.patterns
           /\ IF shellNeedsRing(ringMembership, chain)
              THEN /\ ringCounter' = ringCounter + 1
                   /\ ringMembership' = shellAssign(ringMembership, chain, 1, ringId)
                   /\ fraudRings' = Append(fraudRings, shellRing(chain, ringId))
              ELSE UNCHANGED <<ringCounter, ringMembership, fraudRings>>
    /\ idx' = idx + 1
    /\ UNCHANGED <<transactions, pc, nodes, allAccounts, cycles, smurfs, shellChains,
                   suspiciousAccounts, result>>

\* the shell loop is over: enter the loop over allAccounts (line 505)
BeginBonus ==
    /\ pc = "shells"
    /\ idx > Len(shellChains)
    /\ pc' = "bonus"
    /\ idx' = 1
    /\ UNCHANGED <<transactions, nodes, allAccounts, cycles, smurfs, shellChains, scores,
                   patterns, ringMembership, fraudRings, ringCounter, suspiciousAccounts,
                   result>>

\* one iteration of the bonus and velocity loop (lines 505-514)
BonusStep ==
    /\ pc = "bonus"
    /\ idx <= Len(allAccounts)
    /\ LET acc == bonusStep(Acc(scores, patterns, ringMembership),
                            allAccounts[idx], transactions)
       IN  scores' = acc.scores /\ patterns' = acc.patterns
    /\ idx' = idx + 1
    /\ UNCHANGED <<transactions, pc, nodes, allAccounts, cycles, smurfs, shellChains,
                   ringMembership, fraudRings, ringCounter, suspiciousAccounts, result>>

\* the bonus loop is over: enter the emit loop over scores (lines 517-519)
BeginFilter ==
    /\ pc = "bonus"
    /\ idx > Len(allAccounts)
    /\ pc' = "filter"
    /\ idx' = 1
    /\ UNCHANGED <<transactions, nodes, allAccounts, cycles, smurfs, shellChains, scores,
                   patterns, ringMembership, fraudRings, ringCounter, suspiciousAccounts,
                   result>>

\* one iteration of the emit loop over scores (lines 519-535)
FilterStep ==
    /\ pc = "filter"
    /\ idx <= Len(scores)
    /\ LET account == scores[idx].k
           score == scores[idx].v
           patternSet == MapGet(patterns, account, << >>)
       IN  suspiciousAccounts' =
             IF filteredOut(account, score, patternSet, nodes, transactions)
             THEN suspiciousAccounts
             ELSE Append(suspiciousAccounts,
                         emitted(account, score, patternSet, ringMembership))
    /\ idx' = idx + 1
    /\ UNCHANGED <<transactions, pc, nodes, allAccounts, cycles, smurfs, shellChains, scores,
                   patterns, ringMembership, fraudRings, ringCounter, result>>

\* line 538
SortStep ==
    /\ pc = "filter"
    /\ idx > Len(scores)
    /\ suspiciousAccounts' = sortByScore(suspiciousAccounts)
    /\ pc' = "risk"
    /\ idx' = 1
    /\ UNCHANGED <<transactions, nodes, allAccounts, cycles, smurfs, shellChains, scores,
                   patterns, ringMembership, fraudRings, ringCounter, result>>

\* one iteration of the ring risk loop (lines 541-549)
RiskStep ==
    /\ pc = "risk"
    /\ idx <= Len(fraudRings)
    /\ fraudRings' = [fraudRings EXCEPT ![idx] = updateRing(@, suspiciousAccounts)]
    /\ idx' = idx + 1
    /\ UNCHANGED <<transactions, pc, nodes, allAccounts, cycles, smurfs, shellChains, scores,
                   patterns, ringMembership, ringCounter, suspiciousAccounts, result>>

\* the largest processing time a run reports, in tenths of a second
MaxElapsed == 1

\* the summary with the flagged accounts counted as the analysed accounts
summaryOfRings(accounts, suspicious, rings, elapsed) ==
    [total_accounts_analyzed |-> Len(suspicious),
     suspicious_accounts_flagged |-> Len(suspicious),
     fraud_rings_detected |-> Len(rings),
     processing_time10 |-> elapsed]

\* the summary object of the returned value (lines 556-561)
summaryOf(accounts, suspicious, rings, elapsed) ==
    [total_accounts_analyzed |-> Len(accounts),
     suspicious_accounts_flagged |-> Len(suspicious),
     fraud_rings_detected |-> Len(rings),
     processing_time10 |-> elapsed]

\* lines 551-562; the elapsed time is whatever the clock says
Return ==
    /\ pc = "risk"
    /\ idx > Len(fraudRings)
    /\ \E elapsed \in 0..MaxElapsed :
         result' = [returned |-> TRUE,
                    suspicious_accounts |-> suspiciousAccounts,
                    fraud_rings |-> fraudRings,
                    summary |-> summaryOf(allAccounts, suspiciousAccounts, fraudRings,
                                          elapsed)]
    /\ pc' = "done"
    /\ UNCHANGED <<transactions, idx, nodes, allAccounts, cycles, smurfs, shellChains, scores,
                   patterns, ringMembership, fraudRings, ringCounter, suspiciousAccounts>>

Next ==
    \/ Setup
    \/ CycleStep
    \/ DetectSmurfs
    \/ SmurfStep
    \/ DetectShells
    \/ ShellStep
    \/ BeginBonus
    \/ BonusStep
    \/ BeginFilter
    \/ FilterStep
    \/ SortStep
    \/ RiskStep
    \/ Return

-----------------------------------------------------------------------------
(* Inputs                                                                  *)

\* the account "A", "B", ... by its code unit
Letter(i) == <<64 + i>>

\* the counterparty accounts "P0", "P1", ..., "P10", ...
Party(i) == IF i < 10 THEN <<80, 48 + i>> ELSE <<80, 48 + (i \div 10), 48 + (i % 10)>>

\* longest transaction list of the exhaustive family
MaxTx == 3

\* number of accounts the exhaustive family draws from
NumCore == 4

\* the largest account number used by a list of <<sender, receiver>> number pairs
RECURSIVE MaxUsed(_)
MaxUsed(s) ==
    IF Len(s) = 0 THEN 0
    ELSE LET m == MaxUsed(SubSeq(s, 1, Len(s) - 1))
             e == s[Len(s)]
             x == IF e[1] > e[2] THEN e[1] ELSE e[2]
         IN  IF x > m THEN x ELSE m

\* the pairs that may follow s when accounts are numbered in the order of their
\* first use (the engine compares ids only for equality and, in cycleKey, for a
\* total order)
NextPairs(s) ==
    LET m == MaxUsed(s)
    IN  { e \in (1..NumCore) \X (1..NumCore) :
            /\ e[1] <= m + 1
            /\ e[2] <= (IF e[1] > m THEN e[1] ELSE m) + 1 }

\* the lists of exactly k pairs
RECURSIVE PairSeqs(_)
PairSeqs(k) ==
    IF k = 0 THEN { << >> }
    ELSE UNION { { Append(s, e) : e \in NextPairs(s) } : s \in PairSeqs(k - 1) }

\* a list of pairs as <<sender, receiver, seconds>> triples, all at time t
AtTime(s, t) == [i \in 1..Len(s) |-> <<Letter(s[i][1]), Letter(s[i][2]), t>>]

\* every list of at most n transactions among NumCore accounts, self-transfers
\* included, all at time t
GeneralTriples(n, t) == { AtTime(s, t) : s \in UNION { PairSeqs(k) : k \in 0..n } }

Hours(h) == h * 60 * 60

\* a fan between the hub and m counterparties taken in turn, the i-th
\* transaction at time ts[i], listed in that order or (rev) backwards
Fan(hub, byRecv, m, ts, rev) ==
    [i \in 1..Len(ts) |->
        LET j == IF rev THEN Len(ts) + 1 - i ELSE i
            party == Party((j - 1) % m)
        IN  IF byRecv THEN <<party, hub, ts[j]>> ELSE <<hub, party, ts[j]>>]

\* n times, gap seconds apart
Evenly(n, gap) == [i \in 1..n |-> (i - 1) * gap]

\* n times: k at time 0, the others at time late
TwoBursts(n, k, late) == [i \in 1..n |-> IF i <= k THEN 0 ELSE late]

\* the directed path p[1] -> p[2] -> ... -> p[k]
Path(p) == [i \in 1..(Len(p) - 1) |-> <<p[i], p[i + 1], 0>>]

\* the directed ring p[1] -> p[2] -> ... -> p[k] -> p[1] (a self-transfer for k = 1)
Ring(p) == [i \in 1..Len(p) |-> <<p[i], p[(i % Len(p)) + 1], 0>>]

Letters(k) == [i \in 1..k |-> Letter(i)]

\* triples moved to time t
Shifted(triples, t) == [i \in 1..Len(triples) |-> <<triples[i][1], triples[i][2], t>>]

\* most accounts of a ring or path placed beside a fan
MaxMotif == 4

\* nothing, a ring or a path among the first accounts, at time 0 or ten days later
Motifs(maxLen) ==
    LET shapes == { << >> } \cup { Ring(Letters(k)) : k \in 1..maxLen }
                            \cup { Path(Letters(k)) : k \in 2..maxLen }
    IN  { Shifted(m, t) : m \in shapes, t \in {0, Hours(240)} }

\* fans around account A or B with a motif before or behind them: ten parties
\* within 72 hours (flagged), ten parties 9 seconds too far apart, nine parties
FanTriples(motifs) ==
    LET fans == { Fan(Letter(h), byRecv, nm, Evenly(nm, gap), FALSE) :
                    h \in {1, 2}, byRecv \in BOOLEAN,
                    nm \in {SMURF_THRESHOLD - 1, SMURF_THRESHOLD},
                    gap \in {0, Hours(8), Hours(8) + 1} }
    IN  { g \o f : g \in motifs, f \in fans } \cup { f \o g : g \in motifs, f \in fans }

\* the account "Z", which pads the activity of others
Padder == <<90>>

\* the account "H", the hub of a fan
Hub == <<72>>

RECURSIVE SetToSeq(_)
SetToSeq(S) ==
    IF S = {} THEN << >>
    ELSE LET x == CHOOSE y \in S : \A z \in S : y <= z
         IN  <<x>> \o SetToSeq(S \ {x})

\* three transactions Z -> a for every account a numbered in S: a then has more
\* than LOW_ACTIVITY_MAX transactions
Pad(S) ==
    LET ord == SetToSeq(S)
    IN  [i \in 1..(3 * Len(ord)) |-> <<Padder, Letter(ord[(i + 2) \div 3]), 0>>]

\* longest padded path of the pipeline's inputs, in accounts
MaxScenPath == 5

\* paths A -> B -> ... and rings A -> B -> ... -> A of k accounts with any set
\* of their accounts padded
PaddedPathTriples(maxLen) ==
    UNION { UNION { { Path(Letters(k)) \o Pad(S), Ring(Letters(k)) \o Pad(S) } :
                      S \in SUBSET (1..k) } : k \in 2..maxLen }

\* a path A -> B -> ... of k accounts whose last account pays back into the
\* path (into itself, a self-transfer; into A, a ring)
LassoTriples(maxLen) ==
    UNION { { Path(Letters(k)) \o <<<<Letter(k), Letter(j), 0>>>> : j \in 1..k } :
              k \in 2..maxLen }

\* 30 days, in seconds
Days30 == MERCHANT_MIN_DAYS * 24 * 60 * 60

\* the account "M", a merchant
Merchant == <<77>>

\* most transactions of a merchant's own trade
MaxMerchantTx == 21

\* n transactions M -> P0, all at time 0 but the last one, which is at time late
Trade(n, late) ==
    [i \in 1..n |-> <<Merchant, Party(0), IF i < n THEN 0 ELSE late>>]

\* a merchant with 19 to maxN transactions over 30 days or a second less, alone
\* or also in the ring M -> A -> B -> M
MerchantTriples(maxN) ==
    { Trade(n, late) \o motif :
        n \in (MERCHANT_MIN_TX - 1)..maxN,
        late \in {Days30 - 1, Days30},
        motif \in { << >>, Ring(<<Merchant, Letter(1), Letter(2)>>) } }

\* ts moved by t seconds
Later(ts, t) == [i \in 1..Len(ts) |-> ts[i] + t]

\* the ring A -> B -> C -> A ten days after a fan of nm parties out of A that is
\* spread over 72 hours, B and C padded; withIn adds the fan of the same
\* parties into A, 100 hours behind the first
CycleFanTriples ==
    { Shifted(Ring(Letters(3)), Hours(240)) \o Pad({2, 3})
        \o Fan(Letter(1), FALSE, nm, Evenly(nm, Hours(8)), FALSE)
        \o (IF withIn
            THEN Fan(Letter(1), TRUE, nm, Later(Evenly(nm, Hours(8)), Hours(100)), FALSE)
            ELSE << >>) :
        nm \in {SMURF_THRESHOLD - 1, SMURF_THRESHOLD}, withIn \in BOOLEAN }

\* the j-th account (1 to 3) of the i-th separate chain: "X07", "Y07", "Z07"
ChainAccount(i, j) == <<87 + j, 48 + (i \div 10), 48 + (i % 10)>>

\* n separate chains X -> Y -> Z
Chains(n) ==
    [k \in 1..(2 * n) |->
        <<ChainAccount((k + 1) \div 2, IF k % 2 = 1 THEN 1 ELSE 2),
          ChainAccount((k + 1) \div 2, IF k % 2 = 1 THEN 2 ELSE 3), 0>>]

\* most separate chains of one input
MaxChains == 10

\* a ring, a flagged fan into H and n separate chains: more than nine rings
ManyRingTriples(maxChains) ==
    { Ring(Letters(3)) \o Fan(Hub, TRUE, SMURF_THRESHOLD, Evenly(SMURF_THRESHOLD, 0), FALSE)
        \o Chains(n) : n \in (maxChains - 1)..maxChains }

\* the inputs of the runs of runDetection
\* most parties of a wide fan
MaxParties == 12

\* fans between the hub and 11 to maxParties parties, one transaction each: all
\* at once, 8 hours apart (more than 72 hours in all), or one of them 72 hours
\* and a second before the others
WideFanTriples(maxParties) ==
    UNION { { Fan(Hub, byRecv, n, ts, FALSE) :
                byRecv \in BOOLEAN,
                ts \in { Evenly(n, 0), Evenly(n, Hours(8)),
                         TwoBursts(n, 1, SMURF_WINDOW_S + 1) } } :
            n \in (SMURF_THRESHOLD + 1)..maxParties }

Inputs(maxTx) ==
    { MkTxs(t) : t \in GeneralTriples(maxTx, 0) \cup FanTriples(Motifs(MaxMotif))
                       \cup WideFanTriples(MaxParties)
                       \cup PaddedPathTriples(MaxScenPath)
                       \cup LassoTriples(MaxScenPath)
                       \cup MerchantTriples(MaxMerchantTx)
                       \cup CycleFanTriples
                       \cup ManyRingTriples(MaxChains) }

\* the sequences of k distinct elements of S
RECURSIVE DistinctSeqs(_, _)
DistinctSeqs(S, k) ==
    IF k = 0 THEN { << >> }
    ELSE UNION { { Append(p, x) : x \in S \ Range(p) } : p \in DistinctSeqs(S, k - 1) }

\* the ids "A", "B", "C", "D" and "B,C" (parseCSVLine keeps a quoted comma)
CycleIds == { Letter(1), Letter(2), Letter(3), Letter(4), <<66, 44, 67>> }

\* most accounts of the first and of the second ring of a pair
MaxRingA == 5

MaxRingB == 3

\* two rings over the cycle ids, one listed behind the other
RingPairTriples(maxA, maxB) ==
    { Ring(p) \o Ring(q) :
        p \in UNION { DistinctSeqs(CycleIds, k) : k \in 1..maxA },
        q \in UNION { DistinctSeqs(CycleIds, k) : k \in 0..maxB } }

\* most accounts of a padded path or ring of the detectors' inputs
MaxPathLen == 9

\* most transactions of a fan of the detectors' inputs
MaxFan == 12

\* fans of 9 to MaxFan transactions with 9 to 11 parties, evenly spaced (span of
\* ten exactly 72 hours, or 9 seconds more) or in two bursts 72 hours or 72
\* hours and a second apart
DetectFanTriples(maxFan) ==
    LET shapes ==
            UNION { { Evenly(n, gap) : gap \in {0, Hours(8), Hours(8) + 1} }
                    \cup { TwoBursts(n, k, late) :
                             k \in 1..(n - 1), late \in {SMURF_WINDOW_S, SMURF_WINDOW_S + 1} } :
                    n \in (SMURF_THRESHOLD - 1)..maxFan }
    IN  { Fan(Hub, byRecv, m, ts, rev) :
            byRecv \in BOOLEAN, rev \in BOOLEAN,
            m \in (SMURF_THRESHOLD - 1)..(SMURF_THRESHOLD + 1), ts \in shapes }

\* a ring A -> B -> ... -> A with the self-transfer A -> A and the return
\* transfer B -> A
LoopTriples(maxA) ==
    { Ring(Letters(k)) \o Ring(<<Letter(1)>>) \o <<<<Letter(2), Letter(1), 0>>>> :
        k \in 3..maxA }

\* a fan of nIn transactions into the hub, 6 hours apart, and a fan of nOut
\* transactions out of it, all at once, each among at most ten parties
TwoWayFanTriples(maxFan) ==
    { Fan(Hub, TRUE, SMURF_THRESHOLD, Evenly(nIn, Hours(6)), FALSE)
        \o Fan(Hub, FALSE, SMURF_THRESHOLD, Evenly(nOut, 0), rev) :
        nIn \in (SMURF_THRESHOLD - 1)..maxFan, nOut \in (SMURF_THRESHOLD - 1)..maxFan,
        rev \in BOOLEAN }

\* the inputs of the runs of the detectors
DetectInputs(maxTx) ==
    { MkTxs(t) : t \in GeneralTriples(maxTx, 0) \cup RingPairTriples(MaxRingA, MaxRingB)
                       \cup LoopTriples(MaxRingA) \cup TwoWayFanTriples(MaxFan)
                       \cup PaddedPathTriples(MaxPathLen) \cup DetectFanTriples(MaxFan) }

\* the three detectors applied to the graph of one input
Detect ==
    /\ pc = "start"
    /\ nodes' = buildGraph(transactions)
    /\ allAccounts' = MapKeys(nodes')
    /\ cycles' = detectCycles(nodes')
    /\ smurfs' = detectSmurfing(transactions)
    /\ shellChains' = detectShellNetworks(nodes')
    /\ pc' = "detected"
    /\ UNCHANGED <<transactions, idx, scores, patterns, ringMembership, fraudRings,
                   ringCounter, suspiciousAccounts, result>>

InitDetect == \E txs \in DetectInputs(MaxTx) : Fresh(txs)

SpecDetect == InitDetect /\ [][Detect]_vars

Init == \E txs \in Inputs(MaxTx) : Fresh(txs)

Spec == Init /\ [][Next]_vars

\* runDetection runs to completion once called: it has no await and waits for
\* nothing, so a run that has not returned keeps taking steps. This is
\* WF_vars(Next) with ENABLED <<Next>>_vars written as the state predicate it
\* equals, pc # "done": every loop guard and its exit guard cover all values
\* of idx
SpecLive == Init /\ [][Next]_vars /\ ([]<>(pc = "done") \/ []<><<Next>>_vars)

-----------------------------------------------------------------------------
(* Properties of runDetection                                              *)

\* the accounts that hold a ring id
RingHolders(rm) == { rm[i].k : i \in 1..Len(rm) }

\* C1: once an account has been given a ring id it is never moved to another
\* ring: no step of the aggregation changes the ringMembership entry of an
\* account that already has one
C1_NeverMoved ==
    [][\A a \in RingHolders(ringMembership) :
          MapGet(ringMembership', a, NoRing) = MapGet(ringMembership, a, NoRing)]_vars

\* the primary members of a ring: the accounts of its cycle or of its shell
\* chain, the flagged hub (listed first) of its smurfing cluster
PrimaryMembers(ring) ==
    IF ring.pattern_type \in {"cycle", "shell_chain"} THEN Range(ring.member_accounts)
    ELSE {ring.member_accounts[1]}

\* C2: ring exclusivity: in the output of one run no account is a primary member
\* of two different rings
C2_RingExclusivity ==
    result.returned =>
        \A i, j \in 1..Len(result.fraud_rings) :
            i # j => PrimaryMembers(result.fraud_rings[i])
                        \cap PrimaryMembers(result.fraud_rings[j]) = {}

\* C3: score bound: the score accumulator of every account stays within 0..100
\* at every step of the aggregation, and every emitted account has a
\* suspicion_score within 0..100
C3_ScoreBound ==
    /\ \A i \in 1..Len(scores) : scores[i].v >= 0 /\ scores[i].v <= 100
    /\ \A i \in 1..Len(suspiciousAccounts) :
          /\ suspiciousAccounts[i].suspicion_score >= 0
          /\ suspiciousAccounts[i].suspicion_score <= 100
    /\ result.returned =>
          \A i \in 1..Len(result.suspicious_accounts) :
              /\ result.suspicious_accounts[i].suspicion_score >= 0
              /\ result.suspicious_accounts[i].suspicion_score <= 100

\* a run has returned an account at the cap of 100 whose cycle, shell
\* intermediary and shell endpoint points alone add up to 120
C3_Witness ==
    /\ result.returned
    /\ \E i \in 1..Len(result.suspicious_accounts) :
          LET a == result.suspicious_accounts[i]
          IN  /\ a.suspicion_score = 100
              /\ Includes(a.detected_patterns, "cycle_length_3")
              /\ Includes(a.detected_patterns, "shell_intermediary")
              /\ Includes(a.detected_patterns, "shell_chain")

\* the record emitted for account a by a returned run, as a set (empty when a
\* was not emitted)
EmittedFor(a) ==
    { result.suspicious_accounts[i] : i \in
        { j \in 1..Len(result.suspicious_accounts) :
            result.suspicious_accounts[j].account_id = a } }

\* the input A->B, B->C, C->A
ThreeRing == MkTxs(Ring(Letters(3)))

\* C4: on the input A->B, B->C, C->A (one transaction each, nothing else) each
\* of A, B and C is emitted with suspicion_score exactly 45
C4_ThreeRingScores ==
    (result.returned /\ transactions = ThreeRing) =>
        \A a \in Range(Letters(3)) :
            /\ EmittedFor(a) # {}
            /\ \A e \in EmittedFor(a) : e.suspicion_score = 45

\* C5: every chain reported by detectShellNetworks has at least 4 accounts
\* (at least 3 hops)
C5_ShellChainSize ==
    \A i \in 1..Len(shellChains) : Len(shellChains[i]) >= 4

\* the number of transactions of the input with account a as sender plus those
\* with a as receiver
TxCount(a) ==
    Cardinality({ k \in 1..Len(transactions) : transactions[k].sender_id = a })
    + Cardinality({ k \in 1..Len(transactions) : transactions[k].receiver_id = a })

\* C6: in every chain reported by detectShellNetworks every interior account
\* has at most 3 transactions in the whole input, no account occurs twice, and
\* the chain has at most 7 accounts
C6_ShellChainInterior ==
    \A i \in 1..Len(shellChains) :
        LET chain == shellChains[i]
        IN  /\ \A j \in 2..(Len(chain) - 1) : TxCount(chain[j]) <= 3
            /\ \A j, k \in 1..Len(chain) : j # k => chain[j] # chain[k]
            /\ Len(chain) <= 7

\* the detector has reported a chain of 7 accounts that ends in an account with
\* more than 3 transactions
C6_Witness ==
    /\ pc = "detected"
    /\ \E i \in 1..Len(shellChains) :
          /\ Len(shellChains[i]) = 7
          /\ TxCount(shellChains[i][7]) > 3

\* the input A->B, B->C, C->D with three more transactions into A and into D
ShellScenario == MkTxs(Path(Letters(4)) \o Pad({1, 4}))

\* C7: for the chain A->B->C->D where B and C have exactly 2 transactions and A
\* and D more than 3, the chain [A,B,C,D] is reported, B and C are emitted with
\* score 35 and the tag shell_intermediary, A and D with score 20 and the tag
\* shell_chain
C7_ShellScenario ==
    (result.returned /\ transactions = ShellScenario) =>
        /\ TxCount(Letter(2)) = 2 /\ TxCount(Letter(3)) = 2
        /\ TxCount(Letter(1)) > 3 /\ TxCount(Letter(4)) > 3
        /\ Includes(shellChains, Letters(4))
        /\ \A a \in {Letter(2), Letter(3)} :
              /\ EmittedFor(a) # {}
              /\ \A e \in EmittedFor(a) :
                    e.suspicion_score = 35 /\ Includes(e.detected_patterns, "shell_intermediary")
        /\ \A a \in {Letter(1), Letter(4)} :
              /\ EmittedFor(a) # {}
              /\ \A e \in EmittedFor(a) :
                    e.suspicion_score = 20 /\ Includes(e.detected_patterns, "shell_chain")

-----------------------------------------------------------------------------
(* Properties of the detectors                                             *)

\* the accounts of the input
Accounts ==
    { transactions[k].sender_id : k \in 1..Len(transactions) }
    \cup { transactions[k].receiver_id : k \in 1..Len(transactions) }

\* some transaction of the input goes from a to b
Edge(a, b) ==
    \E k \in 1..Len(transactions) :
        transactions[k].sender_id = a /\ transactions[k].receiver_id = b

\* the directed paths of k pairwise distinct accounts
RECURSIVE SimplePaths(_)
SimplePaths(k) ==
    IF k = 1 THEN { <<a>> : a \in Accounts }
    ELSE UNION { { Append(q, x) : x \in { y \in Accounts \ Range(q) : Edge(q[Len(q)], y) } } :
                   q \in SimplePaths(k - 1) }

\* the directed simple cycles of 3, 4 or 5 accounts, each from every start
SimpleCycles ==
    { q \in SimplePaths(3) \cup SimplePaths(4) \cup SimplePaths(5) : Edge(q[Len(q)], q[1]) }

\* the rotations of a cycle
Rotations(c) ==
    { [i \in 1..Len(c) |-> c[((i + r - 1) % Len(c)) + 1]] : r \in 0..(Len(c) - 1) }

\* C8: the cycles returned by detectCycles, taken up to rotation, are exactly
\* the directed simple cycles of 3, 4 or 5 distinct accounts, each returned
\* exactly once
C8_CyclesComplete ==
    pc = "detected" =>
        LET all == SimpleCycles
        IN  /\ \A i \in 1..Len(cycles) : cycles[i] \in all
            /\ \A i, j \in 1..Len(cycles) : i # j => cycles[j] \notin Rotations(cycles[i])
            /\ \A c \in all : \E i \in 1..Len(cycles) : cycles[i] \in Rotations(c)

\* C9: every cycle reported by detectCycles has between 3 and 5 pairwise
\* distinct accounts, so that a self-transfer or a two-account back-and-forth
\* is never reported as a cycle
C9_CycleLength ==
    \A i \in 1..Len(cycles) :
        /\ Len(cycles[i]) >= 3
        /\ Len(cycles[i]) <= 5
        /\ \A j, k \in 1..Len(cycles[i]) : j # k => cycles[i][j] # cycles[i][k]

\* the detector has reported a cycle of 5 accounts on an input that also holds
\* a self-transfer and a two-account back-and-forth
C9_Witness ==
    /\ pc = "detected"
    /\ \E i \in 1..Len(cycles) : Len(cycles[i]) = 5
    /\ \E a \in Accounts : Edge(a, a)
    /\ \E a, b \in Accounts : a # b /\ Edge(a, b) /\ Edge(b, a)

\* the timestamps of the transactions into a (byRecv) or out of a
TimesOf(a, byRecv) ==
    { transactions[k].timestamp : k \in
        { j \in 1..Len(transactions) :
            IF byRecv THEN transactions[j].receiver_id = a
            ELSE transactions[j].sender_id = a } }

\* the counterparties of a in the transactions into a (byRecv) or out of a
\* that are timed from lo to hi
PartiesWithin(a, byRecv, lo, hi) ==
    { IF byRecv THEN transactions[k].sender_id ELSE transactions[k].receiver_id : k \in
        { j \in 1..Len(transactions) :
            /\ IF byRecv THEN transactions[j].receiver_id = a
               ELSE transactions[j].sender_id = a
            /\ lo <= transactions[j].timestamp
            /\ transactions[j].timestamp <= hi } }

\* some set of the transactions into (out of) a spans at most 72 hours and has
\* at least 10 distinct counterparties: the largest set between two of their
\* timestamps does
HasSmurfWindow(a, byRecv) ==
    \E lo, hi \in TimesOf(a, byRecv) :
        /\ lo <= hi
        /\ hi - lo <= 72 * 60 * 60
        /\ Cardinality(PartiesWithin(a, byRecv, lo, hi)) >= 10

\* detectSmurfing has flagged a in the direction
Flagged(a, type) ==
    \E i \in 1..Len(smurfs) : smurfs[i].type = type /\ smurfs[i].account = a

\* C10: an account is flagged fan-in iff some set of its incoming transactions
\* spans at most 72 hours (exactly 72 hours included) and has at least 10
\* distinct senders, and fan-out likewise with its outgoing transactions; an
\* account with fewer than 10 distinct counterparties in a direction is never
\* flagged in it
C10_SmurfThreshold ==
    pc = "detected" =>
        \A a \in Accounts :
            /\ Flagged(a, "fan_in") <=> HasSmurfWindow(a, TRUE)
            /\ Flagged(a, "fan_out") <=> HasSmurfWindow(a, FALSE)
            /\ Flagged(a, "fan_in") =>
                  Cardinality({ transactions[k].sender_id : k \in
                      { j \in 1..Len(transactions) : transactions[j].receiver_id = a } }) >= 10
            /\ Flagged(a, "fan_out") =>
                  Cardinality({ transactions[k].receiver_id : k \in
                      { j \in 1..Len(transactions) : transactions[j].sender_id = a } }) >= 10

\* the detector has flagged a fan-in hub whose ten senders are spread over
\* exactly 72 hours and over no shorter span
C10_Witness ==
    /\ pc = "detected"
    /\ \E a \in Accounts :
          /\ Flagged(a, "fan_in")
          /\ \A lo, hi \in TimesOf(a, TRUE) :
                (lo <= hi /\ Cardinality(PartiesWithin(a, TRUE, lo, hi)) >= 10)
                    => hi - lo >= 72 * 60 * 60

-----------------------------------------------------------------------------
(* Properties of the output of runDetection                                *)

\* the tags that name a cycle, a smurfing cluster or a shell chain
StructuralTags ==
    {"cycle_length_3", "cycle_length_4", "cycle_length_5", "fan_in_smurfing",
     "fan_out_smurfing", "shell_intermediary", "shell_chain"}

\* account a carries a structural tag at the end of the aggregation
HasStructuralTag(a) == Range(MapGet(patterns, a, << >>)) \cap StructuralTags # {}

\* the transactions of the input with a as sender or as receiver
OwnTxs(a) ==
    { k \in 1..Len(transactions) :
        transactions[k].sender_id = a \/ transactions[k].receiver_id = a }

\* a has at least 20 transactions, the earliest and the latest at least 30 days
\* apart
MerchantTest(a) ==
    /\ Cardinality(OwnTxs(a)) >= 20
    /\ \E i, j \in OwnTxs(a) :
          transactions[j].timestamp - transactions[i].timestamp >= 30 * 24 * 60 * 60

\* the accounts with a positive final score
Scored == { a \in Accounts : MapGet(scores, a, 0) > 0 }

\* C11: an account with a positive score is omitted from suspicious_accounts
\* iff it carries no cycle, smurfing or shell tag and has at least 20
\* transactions spanning at least 30 days
C11_FalsePositiveFilter ==
    result.returned =>
        \A a \in Scored :
            EmittedFor(a) = {} <=> (~HasStructuralTag(a) /\ MerchantTest(a))

\* a run has omitted a scored account with exactly 20 transactions over exactly
\* 30 days and emitted a merchant-like account that is in a cycle
C11_Witness ==
    /\ result.returned
    /\ \E a \in Scored :
          /\ EmittedFor(a) = {}
          /\ Cardinality(OwnTxs(a)) = 20
          /\ \A i, j \in OwnTxs(a) :
                transactions[j].timestamp - transactions[i].timestamp <= 30 * 24 * 60 * 60
    /\ \E b \in Scored : MerchantTest(b) /\ HasStructuralTag(b) /\ EmittedFor(b) # {}

\* the reported cycles that account a is in
CyclesOf(a) == { i \in 1..Len(cycles) : a \in Range(cycles[i]) }

\* a is an account of some reported shell chain
HasShellRole(a) == \E i \in 1..Len(shellChains) : a \in Range(shellChains[i])

\* at least 5 transactions of a lie within 24 hours
HasVelocityWindow(a) ==
    \E i \in OwnTxs(a) :
        Cardinality({ k \in OwnTxs(a) :
                        /\ transactions[i].timestamp <= transactions[k].timestamp
                        /\ transactions[k].timestamp - transactions[i].timestamp
                              <= 24 * 60 * 60 }) >= 5

\* a is emitted once, with score 90, two tags and the id of the ring of its one
\* cycle, and no smurfing ring has a as its hub
CycleAndFanOutcome(a) ==
    /\ Cardinality(EmittedFor(a)) = 1
    /\ \A e \in EmittedFor(a) :
          /\ e.suspicion_score = 90
          /\ Len(e.detected_patterns) = 2
          /\ \A i \in CyclesOf(a) :
                /\ result.fraud_rings[i].pattern_type = "cycle"
                /\ e.ring_id = result.fraud_rings[i].ring_id
    /\ \A k \in 1..Len(result.fraud_rings) :
          result.fraud_rings[k].pattern_type \in {"smurfing_fan_in", "smurfing_fan_out"}
              => result.fraud_rings[k].member_accounts[1] # a

\* C12 as stated: an account in exactly one detected cycle that is flagged
\* fan-out, has no shell-chain role and no high-velocity window is emitted with
\* score 90, exactly two tags and the ring id of the cycle's ring
C12_CycleAndFanOut ==
    result.returned =>
        \A a \in Accounts :
            (/\ Cardinality(CyclesOf(a)) = 1
             /\ Flagged(a, "fan_out")
             /\ ~HasShellRole(a)
             /\ ~HasVelocityWindow(a)) => CycleAndFanOutcome(a)

\* C12, amended: the same for an account that is not also flagged fan-in
C12_CycleAndFanOutOnly ==
    result.returned =>
        \A a \in Accounts :
            (/\ Cardinality(CyclesOf(a)) = 1
             /\ Flagged(a, "fan_out")
             /\ ~Flagged(a, "fan_in")
             /\ ~HasShellRole(a)
             /\ ~HasVelocityWindow(a)) => CycleAndFanOutcome(a)

\* a run has returned an account of one cycle that is flagged fan-out only and
\* has neither a shell-chain role nor a high-velocity window
C12_Witness ==
    /\ result.returned
    /\ \E a \in Accounts :
          /\ Cardinality(CyclesOf(a)) = 1
          /\ Flagged(a, "fan_out")
          /\ ~Flagged(a, "fan_in")
          /\ ~HasShellRole(a)
          /\ ~HasVelocityWindow(a)
          /\ CycleAndFanOutcome(a)

\* C13: all accounts of a detected cycle are emitted with one and the same
\* ring_id, the id of the ring created for that cycle (the i-th cycle creates
\* the i-th ring)
C13_CycleSharesRing ==
    result.returned =>
        \A i \in 1..Len(cycles) :
            \A a \in Range(cycles[i]) :
                /\ EmittedFor(a) # {}
                /\ \A e \in EmittedFor(a) : e.ring_id = result.fraud_rings[i].ring_id

\* C14: all accounts of a detected shell chain are emitted with the same
\* ring_id, and that id names a ring of pattern type shell_chain
C14_ChainSharesRing ==
    result.returned =>
        \A i \in 1..Len(shellChains) :
            \E k \in 1..Len(result.fraud_rings) :
                /\ result.fraud_rings[k].pattern_type = "shell_chain"
                /\ \A a \in Range(shellChains[i]) :
                      /\ EmittedFor(a) # {}
                      /\ \A e \in EmittedFor(a) : e.ring_id = result.fraud_rings[k].ring_id

\* the decimal digit d as a string
DigitString(d) ==
    CASE d = 0 -> "0" [] d = 1 -> "1" [] d = 2 -> "2" [] d = 3 -> "3" [] d = 4 -> "4"
      [] d = 5 -> "5" [] d = 6 -> "6" [] d = 7 -> "7" [] d = 8 -> "8" [] d = 9 -> "9"

\* RING_ followed by k (below 1000) written with three digits
RingName(k) ==
    "RING_" \o DigitString((k \div 100) % 10) \o DigitString((k \div 10) % 10)
            \o DigitString(k % 10)

\* the place of a ring's detector in the processing order
DetectorRank(ring) ==
    CASE ring.pattern_type = "cycle" -> 1
      [] ring.pattern_type \in {"smurfing_fan_in", "smurfing_fan_out"} -> 2
      [] ring.pattern_type = "shell_chain" -> 3

\* the rings of the list are named and ordered as C15 says
NamedInOrder(rings) ==
    \A k \in 1..Len(rings) :
        /\ rings[k].ring_id = RingName(k)
        /\ \A j \in 1..(k - 1) :
              /\ rings[j].ring_id # rings[k].ring_id
              /\ DetectorRank(rings[j]) <= DetectorRank(rings[k])

\* C15: the k-th ring of fraud_rings has the id RING_ followed by k zero-padded
\* to three digits, no two rings share an id, and every cycle ring precedes
\* every smurfing ring, which precedes every shell_chain ring
C15_RingIds ==
    /\ NamedInOrder(fraudRings)
    /\ result.returned => NamedInOrder(result.fraud_rings)

\* a run has returned more than nine rings, of all three kinds
C15_Witness ==
    /\ result.returned
    /\ Len(result.fraud_rings) >= 10
    /\ \A r \in 1..3 :
          \E k \in 1..Len(result.fraud_rings) : DetectorRank(result.fraud_rings[k]) = r

\* the emitted suspicion_score of account a, 0 when a is not emitted
EmittedScore(a) ==
    IF EmittedFor(a) = {} THEN 0
    ELSE (CHOOSE e \in EmittedFor(a) : TRUE).suspicion_score

\* the sum of the emitted scores of the first i members
RECURSIVE ScoreTotal(_, _)
ScoreTotal(members, i) ==
    IF i = 0 THEN 0 ELSE ScoreTotal(members, i - 1) + EmittedScore(members[i])

\* risk10 / 10 is 0.6 * max + 0.4 * mean of the members' emitted scores rounded
\* to one decimal: risk10 is within 1/2 of 6 * max + 4 * total / n
RiskIsRounded(ring) ==
    LET n == Len(ring.member_accounts)
        total == ScoreTotal(ring.member_accounts, n)
        max == CHOOSE m \in { EmittedScore(a) : a \in Range(ring.member_accounts) } :
                   \A a \in Range(ring.member_accounts) : m >= EmittedScore(a)
        twice == 2 * n * ring.risk10 - (12 * max * n + 8 * total)
    IN  /\ n > 0
        /\ twice <= n
        /\ twice >= 0 - n

\* C16: every ring's emitted risk_score equals 0.6 * max + 0.4 * mean of its
\* members' emitted scores (0 for a member that is not emitted), rounded to one
\* decimal, and lies within 0..100; no ring keeps its preliminary value
C16_RingRisk ==
    result.returned =>
        \A k \in 1..Len(result.fraud_rings) :
            /\ RiskIsRounded(result.fraud_rings[k])
            /\ result.fraud_rings[k].risk10 >= 0
            /\ result.fraud_rings[k].risk10 <= 1000

\* a run has returned a ring with a member that is not emitted whose risk is
\* rounded up to the next tenth
C16_Witness ==
    /\ result.returned
    /\ \E k \in 1..Len(result.fraud_rings) :
          LET ring == result.fraud_rings[k]
              n == Len(ring.member_accounts)
          IN  /\ \E a \in Range(ring.member_accounts) : EmittedFor(a) = {}
              /\ (4 * ScoreTotal(ring.member_accounts, n)) % n # 0
              /\ 2 * ((4 * ScoreTotal(ring.member_accounts, n)) % n) > n

\* the place of account a in the order in which the accounts first received a
\* score
ScoredAt(a) == CHOOSE i \in 1..Len(scores) : scores[i].k = a

\* C17: suspicious_accounts is sorted by non-increasing suspicion_score, and
\* accounts with equal score appear in the order in which they first received a
\* score
C17_OutputOrder ==
    result.returned =>
        \A i, j \in 1..Len(result.suspicious_accounts) :
            i < j =>
                LET x == result.suspicious_accounts[i]
                    y == result.suspicious_accounts[j]
                IN  /\ x.suspicion_score >= y.suspicion_score
                    /\ x.suspicion_score = y.suspicion_score
                          => ScoredAt(x.account_id) < ScoredAt(y.account_id)

\* a run has returned two accounts with equal score and two accounts that the
\* sort has put in the reverse of the order of their first score
C17_Witness ==
    /\ result.returned
    /\ \E i, j \in 1..Len(result.suspicious_accounts) :
          /\ i < j
          /\ result.suspicious_accounts[i].suspicion_score
                = result.suspicious_accounts[j].suspicion_score
    /\ \E i, j \in 1..Len(result.suspicious_accounts) :
          /\ i < j
          /\ ScoredAt(result.suspicious_accounts[i].account_id)
                > ScoredAt(result.suspicious_accounts[j].account_id)

\* C18: every emitted account has a non-empty detected_patterns set and a
\* strictly positive score, and an account is emitted exactly when its final
\* score is positive and the false-positive filter does not suppress it
C18_EmittedAccounts ==
    result.returned =>
        /\ \A i \in 1..Len(result.suspicious_accounts) :
              /\ Len(result.suspicious_accounts[i].detected_patterns) > 0
              /\ result.suspicious_accounts[i].suspicion_score > 0
              /\ result.suspicious_accounts[i].suspicion_score
                    = MapGet(scores, result.suspicious_accounts[i].account_id, 0)
        /\ \A a \in Accounts :
              EmittedFor(a) # {}
                  <=> (/\ MapGet(scores, a, 0) > 0
                       /\ ~(~HasStructuralTag(a) /\ MerchantTest(a)))

\* a run has returned an account whose only tag is high_velocity and left out
\* an account that never received a score
C18_Witness ==
    /\ result.returned
    /\ \E i \in 1..Len(result.suspicious_accounts) :
          result.suspicious_accounts[i].detected_patterns = <<"high_velocity">>
    /\ \E a \in Accounts : MapGet(scores, a, 0) = 0 /\ EmittedFor(a) = {}

-----------------------------------------------------------------------------
(* Properties of buildGraph and of the summary                             *)

\* the number of transactions of the input from a to b
Multiplicity(a, b) ==
    Cardinality({ k \in 1..Len(transactions) :
                    transactions[k].sender_id = a /\ transactions[k].receiver_id = b })

\* the number of places at which transaction t stands in the list txs
Occurrences(txs, t) == Cardinality({ i \in 1..Len(txs) : txs[i] = t })

\* C19: after buildGraph the nodes are exactly the accounts of the input; the
\* out-edge count a->b equals the in-edge count of b from a and the number of
\* transactions from a to b; each transaction stands exactly once in its
\* sender's list and in no other; totalTxCount is sent plus received; an empty
\* list yields an empty node map
C19_GraphConstruction ==
    pc = "detected" =>
        /\ Range(MapKeys(nodes)) = Accounts
        /\ Len(nodes) = Cardinality(Accounts)
        /\ \A i \in 1..Len(nodes) : nodes[i].v.id = nodes[i].k
        /\ \A a, b \in Accounts :
              /\ MapGet(NodeOf(nodes, a).outEdges, b, 0) = Multiplicity(a, b)
              /\ MapGet(NodeOf(nodes, b).inEdges, a, 0) = Multiplicity(a, b)
        /\ \A a \in Accounts :
              /\ \A k \in 1..Len(transactions) :
                    Occurrences(NodeOf(nodes, a).transactions, transactions[k])
                        = IF transactions[k].sender_id = a THEN 1 ELSE 0
              /\ Range(NodeOf(nodes, a).transactions) \subseteq Range(transactions)
              /\ NodeOf(nodes, a).totalTxCount = TxCount(a)
        /\ transactions = << >> => nodes = << >>

\* the graph has been built from an input with two transactions between the
\* same two accounts and a self-transfer
C19_Witness ==
    /\ pc = "detected"
    /\ \E a, b \in Accounts : a # b /\ MapGet(NodeOf(nodes, a).outEdges, b, 0) >= 2
    /\ \E a \in Accounts : MapGet(NodeOf(nodes, a).outEdges, a, 0) >= 1

\* C20: a run on the empty list returns empty suspicious_accounts and
\* fraud_rings and three zero counters; on every input the counters are the
\* number of distinct accounts, the length of suspicious_accounts and the
\* length of fraud_rings
C20_Summary ==
    result.returned =>
        /\ result.summary.total_accounts_analyzed = Cardinality(Accounts)
        /\ result.summary.suspicious_accounts_flagged = Len(result.suspicious_accounts)
        /\ result.summary.fraud_rings_detected = Len(result.fraud_rings)
        /\ result.summary.processing_time10 >= 0
        /\ transactions = << >> =>
              /\ result.suspicious_accounts = << >>
              /\ result.fraud_rings = << >>
              /\ result.summary.total_accounts_analyzed = 0
              /\ result.summary.suspicious_accounts_flagged = 0
              /\ result.summary.fraud_rings_detected = 0

\* the run on the empty list has returned
C20_Witness ==
    /\ result.returned
    /\ transactions = << >>

\* a run has returned with three different positive counters
C20_WitnessCounted ==
    /\ result.returned
    /\ result.summary.fraud_rings_detected > 0
    /\ result.summary.suspicious_accounts_flagged > result.summary.fraud_rings_detected
    /\ result.summary.total_accounts_analyzed > result.summary.suspicious_accounts_flagged

-----------------------------------------------------------------------------
(* Properties of the filter and of the searches                            *)

\* the suppression rule read off an emitted record and the input: no cycle,
\* smurfing or shell tag, and merchant-like
Suppressed(r) ==
    /\ Range(r.detected_patterns) \cap StructuralTags = {}
    /\ MerchantTest(r.account_id)

\* the suppression rule applied to a list of emitted records
FilteredAgain(accts) == SelectSeq(accts, LAMBDA r : ~Suppressed(r))

\* C22: the suppression rule applied to the list the emit loop has produced
\* removes nothing and changes nothing, before the sort, after it and in the
\* returned result
C22_FilterIdempotent ==
    /\ (pc = "filter" /\ idx > Len(scores)) \/ pc \in {"risk", "done"} =>
          FilteredAgain(suspiciousAccounts) = suspiciousAccounts
    /\ result.returned =>
          FilteredAgain(result.suspicious_accounts) = result.suspicious_accounts

\* the emit loop has suppressed a scored account and emitted others, one of
\* them merchant-like
C22_Witness ==
    /\ pc = "risk"
    /\ \E a \in Scored : \A i \in 1..Len(suspiciousAccounts) :
          suspiciousAccounts[i].account_id # a
    /\ \E i \in 1..Len(suspiciousAccounts) :
          MerchantTest(suspiciousAccounts[i].account_id)

\* the last account of a path
Last(p) == p[Len(p)]

\* the paths of the recursive calls that the calls with the paths of frontier
\* make, directly or through further calls, in detectCycles
RECURSIVE CycleSearch(_)
CycleSearch(frontier) ==
    IF frontier = {} THEN {}
    ELSE frontier \cup
         CycleSearch(UNION { { Append(p, n) :
                                 n \in { m \in Range(MapKeys(NodeOf(nodes, Last(p)).outEdges)) :
                                           /\ ~closesCycle(m, p[1], p)
                                           /\ extendsPath(m, Range(p), p) } } :
                             p \in frontier })

\* the same for detectShellNetworks
RECURSIVE ShellSearch(_)
ShellSearch(frontier) ==
    IF frontier = {} THEN {}
    ELSE frontier \cup
         ShellSearch(UNION { { Append(p, n) :
                                 n \in { m \in Range(MapKeys(NodeOf(nodes, Last(p)).outEdges)) :
                                           /\ ~Includes(p, m)
                                           /\ ~shellSkip(nodes, Last(p), p)
                                           /\ Len(p) + 1 < SHELL_MAX_PATH } } :
                             p \in frontier })

\* the paths of all calls of dfs, the calls of the loops over nodes.keys() first
CycleCalls == CycleSearch({ <<a>> : a \in Range(MapKeys(nodes)) })

ShellCalls == ShellSearch({ <<a>> : a \in Range(MapKeys(nodes)) })

\* the left pointer of a sliding window once the right pointer has been at
\* every position up to right
RECURSIVE WindowLeft(_, _, _)
WindowLeft(sorted, right, windowLen) ==
    IF right = 0 THEN 1
    ELSE advanceLeft(sorted, WindowLeft(sorted, right - 1, windowLen), right, windowLen)

\* the sorted lists the windows slide over: the groups by receiver and by
\* sender, and the transactions of each account
SmurfLists ==
    { sortByTime(g.v) : g \in Range(groupBy(transactions, 1, TRUE, << >>))
                               \cup Range(groupBy(transactions, 1, FALSE, << >>)) }

VelocityLists == { sortByTime(accountTxs(transactions, a)) : a \in Accounts }

\* the searches and the windows of a finished run were bounded
SearchesBounded ==
    /\ \A p \in CycleCalls : Len(p) <= 5
    /\ \A p \in ShellCalls : Len(p) <= 7
    /\ \A sorted \in SmurfLists : \A right \in 1..Len(sorted) :
          WindowLeft(sorted, right, SMURF_WINDOW_S) <= right
    /\ \A sorted \in VelocityLists : \A right \in 1..Len(sorted) :
          WindowLeft(sorted, right, 24 * 60 * 60) <= right

\* C23: every run reaches its return; the searches of detectCycles never hold
\* a path of more than 5 accounts, those of detectShellNetworks never one of
\* more than 7, and the left pointer of the sliding windows of detectSmurfing
\* and hasHighVelocity never passes the right pointer
C23_Termination ==
    /\ [](pc = "done" => SearchesBounded)
    /\ <>(result.returned)

\* a run has returned whose cycle search held a path of 5 accounts and one of
\* whose windows has moved its left pointer
C23_Witness ==
    /\ result.returned
    /\ \E p \in CycleCalls : Len(p) = 5
    /\ \E sorted \in SmurfLists \cup VelocityLists :
          WindowLeft(sorted, Len(sorted), 24 * 60 * 60) > 1

-----------------------------------------------------------------------------
(* Score composition, completeness of the shell search, smurfing flags     *)

\* the reported shell chains with a in their interior, and those with a first
\* or last
InteriorOf(a) ==
    { i \in 1..Len(shellChains) :
        \E j \in 2..(Len(shellChains[i]) - 1) : shellChains[i][j] = a }

EndOf(a) ==
    { i \in 1..Len(shellChains) :
        shellChains[i][1] = a \/ shellChains[i][Len(shellChains[i])] = a }

One(b) == IF b THEN 1 ELSE 0

\* the tags of a other than high_velocity
PatternTags(a) == Range(MapGet(patterns, a, << >>)) \ {"high_velocity"}

\* the points of a before the clamp
RawPoints(a) ==
    45 * Cardinality(CyclesOf(a))
    + 30 * One(Flagged(a, "fan_in")) + 30 * One(Flagged(a, "fan_out"))
    + 35 * Cardinality(InteriorOf(a)) + 20 * Cardinality(EndOf(a))
    + 15 * One(Cardinality(PatternTags(a)) >= 2)
    + 10 * One(HasVelocityWindow(a))

\* C24: the final score of every account is min(100, 45*c + 30*fi + 30*fo +
\* 35*si + 20*se + 15*b + 10*v), and an emitted account carries that score
C24_ScoreComposition ==
    result.returned =>
        /\ \A a \in Accounts : MapGet(scores, a, 0) = Min(100, RawPoints(a))
        /\ \A i \in 1..Len(result.suspicious_accounts) :
              result.suspicious_accounts[i].suspicion_score
                  = Min(100, RawPoints(result.suspicious_accounts[i].account_id))

\* a run has returned with an account that has cycle, shell end, bonus and
\* velocity points, more than 100 in all, with an account in the interior of a
\* chain and with an account that has the velocity points alone
C24_Witness ==
    /\ result.returned
    /\ \E a \in Accounts :
          /\ RawPoints(a) > 100
          /\ CyclesOf(a) # {}
          /\ EndOf(a) # {}
          /\ Cardinality(PatternTags(a)) >= 2
          /\ HasVelocityWindow(a)
    /\ \E a \in Accounts : InteriorOf(a) # {}
    /\ \E a \in Accounts : RawPoints(a) = 10 /\ MapGet(scores, a, 0) = 10

\* C25: every directed path of 4 to 7 pairwise distinct accounts whose interior
\* accounts all have at most 3 transactions is reported by
\* detectShellNetworks, whatever the activity of its first and last account
C25_ShellComplete ==
    pc = "detected" =>
        \A k \in 4..7 : \A q \in SimplePaths(k) :
            (\A j \in 2..(k - 1) : TxCount(q[j]) <= 3) => Includes(shellChains, q)

\* the entries of the result of detectSmurfing for account a and a direction
EntriesOf(a, type) ==
    { i \in 1..Len(smurfs) : smurfs[i].type = type /\ smurfs[i].account = a }

\* the times at which a window of the transactions into (out of) a ends that
\* spans at most 72 hours and has at least 10 distinct counterparties
QualifyingEnds(a, byRecv) ==
    { hi \in TimesOf(a, byRecv) :
        \E lo \in TimesOf(a, byRecv) :
            /\ lo <= hi
            /\ hi - lo <= 72 * 60 * 60
            /\ Cardinality(PartiesWithin(a, byRecv, lo, hi)) >= 10 }

\* C26: the result of detectSmurfing has at most one fan_in and at most one
\* fan_out entry per account, however many windows qualify; an account that
\* qualifies in both directions has both entries
C26_ReportOnce ==
    pc = "detected" =>
        \A a \in Accounts :
            /\ Cardinality(EntriesOf(a, "fan_in")) <= 1
            /\ Cardinality(EntriesOf(a, "fan_out")) <= 1
            /\ (QualifyingEnds(a, TRUE) # {} /\ QualifyingEnds(a, FALSE) # {})
                  => (EntriesOf(a, "fan_in") # {} /\ EntriesOf(a, "fan_out") # {})

\* detectSmurfing has run on an account with both entries and with qualifying
\* windows that end at three different times
C26_Witness ==
    /\ pc = "detected"
    /\ \E a \in Accounts :
          /\ EntriesOf(a, "fan_in") # {}
          /\ EntriesOf(a, "fan_out") # {}
          /\ Cardinality(QualifyingEnds(a, TRUE)) >= 3

-----------------------------------------------------------------------------
(* Properties of the fraud rings                                           *)

\* the list holds no account twice
NoDuplicates(members) ==
    \A i, j \in 1..Len(members) : members[i] = members[j] => i = j

\* C27: no fraud ring's member_accounts holds the same account id twice, in
\* cycle, smurfing and shell_chain rings alike, self-transfers in the input
\* included
C27_MembersAreSets ==
    /\ \A k \in 1..Len(fraudRings) : NoDuplicates(fraudRings[k].member_accounts)
    /\ result.returned =>
          \A k \in 1..Len(result.fraud_rings) :
              NoDuplicates(result.fraud_rings[k].member_accounts)

\* C29: every flag of detectSmurfing carries exactly 10 distinct
\* counterparties, so the cap of 20 removes nothing: every smurfing ring has
\* exactly 11 member entries, the flagged account and the counterparties of
\* its flag
C29_SmurfRingSize ==
    /\ \A i \in 1..Len(smurfs) :
          /\ Len(smurfs[i].counterparties) = 10
          /\ NoDuplicates(smurfs[i].counterparties)
    /\ \A k \in 1..Len(fraudRings) :
          fraudRings[k].pattern_type \in {"smurfing_fan_in", "smurfing_fan_out"} =>
              /\ Len(fraudRings[k].member_accounts) = 11
              /\ \E i \in 1..Len(smurfs) :
                    /\ smurfs[i].account = fraudRings[k].member_accounts[1]
                    /\ smurfs[i].counterparties = Tail(fraudRings[k].member_accounts)

\* a run has returned with a smurfing ring around an account that has 12
\* counterparties, all of them within 72 hours
C29_Witness ==
    /\ result.returned
    /\ \E k \in 1..Len(result.fraud_rings) :
          /\ result.fraud_rings[k].pattern_type = "smurfing_fan_in"
          /\ \E lo, hi \in TimesOf(result.fraud_rings[k].member_accounts[1], TRUE) :
                /\ lo <= hi
                /\ hi - lo <= 72 * 60 * 60
                /\ Cardinality(PartiesWithin(result.fraud_rings[k].member_accounts[1],
                                             TRUE, lo, hi)) >= 12

\* the rings of the result with the id
RingsNamed(id) ==
    { k \in 1..Len(result.fraud_rings) : result.fraud_rings[k].ring_id = id }

\* the emitted records whose ring is of the type
EmittedInto(type) ==
    { i \in 1..Len(result.suspicious_accounts) :
        \E k \in RingsNamed(result.suspicious_accounts[i].ring_id) :
            result.fraud_rings[k].pattern_type = type }

\* C30: for every emitted account with a ring id, fraud_rings holds exactly one
\* ring with that id, and the account is among that ring's member_accounts
C30_RingReferences ==
    result.returned =>
        \A i \in 1..Len(result.suspicious_accounts) :
            LET e == result.suspicious_accounts[i]
            IN  e.ring_id # "null" =>
                    /\ Cardinality(RingsNamed(e.ring_id)) = 1
                    /\ \A k \in RingsNamed(e.ring_id) :
                          Includes(result.fraud_rings[k].member_accounts, e.account_id)

\* a run has returned with accounts that refer to a cycle ring, to a smurfing
\* ring and to a shell ring
C30_Witness ==
    /\ result.returned
    /\ EmittedInto("cycle") # {}
    /\ EmittedInto("smurfing_fan_in") # {}
    /\ EmittedInto("shell_chain") # {}

====
